---- MODULE Spec2Model ----
(***************************************************************************)
(* A model of the instruction layer of the split-annotation virtual        *)
(* machine: the four instructions Split, Merge, Call and To                *)
(* (sa/annotation/vm/instruction.py), the pandas split type DataFrameSplit *)
(* (sa/annotated/pandas/annotated.py), the per-thread context of value     *)
(* stacks, and the batch loop that evaluates a Program once per ascending  *)
(* batch index.                                                            *)
(***************************************************************************)
EXTENDS Integers, Sequences, FiniteSets, TLC

VARIABLES
    values,       \* slot id -> source value (the global value map), never written
    index_range,  \* thread -> <<shardStart, shardEnd>>
    insts,        \* the Program: a sequence of instruction descriptors
    context,      \* thread -> slot id -> stack (sequence) of produced values
    pc,           \* thread -> index in insts of the next instruction to evaluate
    batch,        \* thread -> the current batch index
    halted,       \* thread -> TRUE once its batch loop has ended
    ncalls,       \* how many times a Call has invoked its function (the side effect)
    ntransfers,   \* how many times a To has invoked the split type's transfer
    stopped,      \* history: thread -> the Split instructions that have returned the marker to it
    removed,      \* history: the Call instructions remove_target was called on
    last          \* the last evaluation: which instruction, by whom, and its outcome

vars == <<values, index_range, insts, context, pc, batch, halted, ncalls, ntransfers,
         stopped, removed, last>>

-----------------------------------------------------------------------------
(* Bounds of the model. *)

\* the longest input Series
MaxLen == 3
\* the largest batch size of a Program
MaxBatchSize == 2
\* batch indices run over 0..MaxBatch, one more than any input needs
MaxBatch == MaxLen + 1

Threads == {1, 2}
\* the thread of a run with one worker
MainThread == CHOOSE t \in Threads : \A u \in Threads : t <= u
Slots == 0 .. 2

\* Python's None, as an instruction target
None == -1

Min(a, b) == IF a <= b THEN a ELSE b

-----------------------------------------------------------------------------
(* Python values. Every value is a record of one shape: its kind, the      *)
(* elements of a container, the text of a string.                          *)

Series(d) == [kind |-> "Series", data |-> d, str |-> ""]
CudfSeries(d) == [kind |-> "cudf", data |-> d, str |-> ""]
IntV(i) == [kind |-> "int", data |-> <<i>>, str |-> ""]
StrV(s) == [kind |-> "str", data |-> <<>>, str |-> s]
NoneV == [kind |-> "None", data |-> <<>>, str |-> ""]
\* a shard of a lazily split input, and the generator object a lazy split returns
View(d) == [kind |-> "view", data |-> d, str |-> ""]
GeneratorV == [kind |-> "generator", data |-> <<>>, str |-> ""]
\* a dag.Operation holding a materialized value
Operation(v) == [kind |-> "Operation", value |-> v]

\* the exhaustion marker the driver module exports
STOP_ITERATION == "stop"

\* value[start:end] of a Python sequence, 0 <= start, 0 <= end
PySlice(d, start, end) ==
    LET lo == Min(start, Len(d))
        hi == Min(end, Len(d))
    IN IF hi <= lo THEN <<>> ELSE SubSeq(d, lo + 1, hi)

\* isinstance(value, pd.DataFrame) or isinstance(value, pd.Series)
IsPandas(value) == value.kind = "Series"

-----------------------------------------------------------------------------
(* Split types. *)

\* DataFrameSplit.split slicing value[start:end - 1]
DataFrameSplit_split_Short(start, end, value) ==
    IF ~IsPandas(value) THEN value
    ELSE Series(PySlice(value.data, start, end - 1))

DataFrameSplit_split(start, end, value) ==
    IF ~IsPandas(value) THEN value
    ELSE Series(PySlice(value.data, start, end))

\* the element count, or None
DataFrameSplit_elements(value) ==
    IF ~IsPandas(value) THEN None ELSE Len(value.data)

DataFrameSplit_to_device(value) ==
    IF IsPandas(value) THEN CudfSeries(value.data) ELSE value

DataFrameSplit_to_host(value) ==
    IF value.kind = "cudf" THEN Series(value.data) ELSE value

\* Broadcast: a constant, every batch receives the whole value
Broadcast_split(start, end, value) == value

RECURSIVE Chunks(_, _)
\* the batches of width w of d, in order
Chunks(d, w) ==
    IF Len(d) = 0 THEN <<>>
    ELSE <<Series(PySlice(d, 0, w))>> \o Chunks(PySlice(d, w, Len(d)), w)

\* A split type that splits lazily: it narrows the input to a view of the
\* shard, and splits a view into a generator of batches.
LazySplit_split(start, end, value) ==
    IF value.kind = "view" THEN GeneratorV
    ELSE IF IsPandas(value) THEN View(PySlice(value.data, start, end))
    ELSE value

\* what the generator of LazySplit_split(start, end, view) yields: the batches
\* of the view, end - start elements each, and then the exhaustion marker
GeneratorItems(start, end, view) ==
    Chunks(view.data, end - start) \o <<StrV(STOP_ITERATION)>>

LazyTypes == {"LazySplit", "LazySplitLoop"}
SplitTypes == {"DataFrameSplit", "Broadcast"} \cup LazyTypes

\* ty.split(start, end, value)
TySplit(ty, start, end, value) ==
    CASE ty = "DataFrameSplit" -> DataFrameSplit_split(start, end, value)
      [] ty = "Broadcast" -> Broadcast_split(start, end, value)
      [] OTHER -> LazySplit_split(start, end, value)

\* ty.elements(value)
TyElements(ty, value) ==
    IF ty = "DataFrameSplit" THEN DataFrameSplit_elements(value) ELSE None

\* ty.to(value, backend)
TyTo(ty, value, backend) ==
    IF ty # "DataFrameSplit" THEN value
    ELSE IF backend = "gpu" THEN DataFrameSplit_to_device(value)
    ELSE DataFrameSplit_to_host(value)

-----------------------------------------------------------------------------
(* Instruction descriptors. One record shape serves the four instructions; *)
(* a field an instruction does not have keeps its default.                 *)

\* self.splitter: None, the bound method ty.split, or a generator with the
\* items it has left to yield; owner is the thread whose evaluation created it
NoSplitter == [kind |-> "None", items |-> <<>>, pos |-> 0, owner |-> 0, loop |-> FALSE]
MethodSplitter == [kind |-> "method", items |-> <<>>, pos |-> 0, owner |-> 0, loop |-> FALSE]
GeneratorSplitter(items, owner, loop) ==
    [kind |-> "generator", items |-> items, pos |-> 0, owner |-> owner, loop |-> loop]

SplitI(target, ty, backend, batch_size) ==
    [op |-> "Split", target |-> target, ty |-> ty, backend |-> backend,
     batch_size |-> batch_size, func |-> "", args |-> <<>>, kwargs |-> <<>>,
     splitter |-> NoSplitter]

MergeI(target, ty, backend, batch_size) ==
    [op |-> "Merge", target |-> target, ty |-> ty, backend |-> backend,
     batch_size |-> batch_size, func |-> "", args |-> <<>>, kwargs |-> <<>>,
     splitter |-> NoSplitter]

\* kwargs is a sequence of <<name, slot>> pairs
CallI(target, func, args, kwargs, ty, backend, batch_size) ==
    [op |-> "Call", target |-> target, ty |-> ty, backend |-> backend,
     batch_size |-> batch_size, func |-> func, args |-> args, kwargs |-> kwargs,
     splitter |-> NoSplitter]

ToI(target, ty, backend) ==
    [op |-> "To", target |-> target, ty |-> ty, backend |-> backend,
     batch_size |-> 0, func |-> "", args |-> <<>>, kwargs |-> <<>>,
     splitter |-> NoSplitter]

-----------------------------------------------------------------------------
(* Split.evaluate *)

\* value.value of a dag.Operation, the value itself otherwise
Unwrap(value) == IF value.kind = "Operation" THEN value.value ELSE value

\* the value narrowed to the thread's index range
ShardValue(inst, range, vals) ==
    TySplit(inst.ty, range[1], range[2], Unwrap(vals[inst.target]))

\* SplitWindow with the batch index not scaled by the batch size
SplitWindow_Unscaled(inst, batch_index, value) ==
    LET start == 0 + batch_index
        end == start + inst.batch_size
        num_elements == TyElements(inst.ty, value)
    IN <<start, IF num_elements # None THEN Min(end, num_elements) ELSE end>>

\* SplitWindow with a closed window, end = start + batch_size + 1
SplitWindow_Closed(inst, batch_index, value) ==
    LET start == 0 + inst.batch_size * batch_index
        end == start + inst.batch_size + 1
        num_elements == TyElements(inst.ty, value)
    IN <<start, IF num_elements # None THEN Min(end, num_elements) ELSE end>>

\* <<start, end>> of the batch, end clamped to the element count if there is one
SplitWindow(inst, batch_index, value) ==
    LET start == 0 + inst.batch_size * batch_index
        end == start + inst.batch_size
        num_elements == TyElements(inst.ty, value)
    IN <<start, IF num_elements # None THEN Min(end, num_elements) ELSE end>>

\* next(generator): the next item, the marker again from a generator that
\* loops on it, StopIteration from a generator that has returned
Pull(g) ==
    IF g.pos < Len(g.items)
    THEN [exc |-> "", result |-> g.items[g.pos + 1],
          splitter |-> [g EXCEPT !.pos = g.pos + 1]]
    ELSE IF g.loop
    THEN [exc |-> "", result |-> StrV(STOP_ITERATION), splitter |-> g]
    ELSE [exc |-> "StopIteration", result |-> NoneV, splitter |-> g]

\* the result of this call and the splitter it leaves behind
\* SplitProduce that never consults the memo: every evaluation is a first one
SplitProduce_NoMemo(inst, thread, range, batch_index, vals) ==
    LET value == ShardValue(inst, range, vals)
        w == SplitWindow(inst, batch_index, value)
        direct == TySplit(inst.ty, w[1], w[2], value)
    IN IF direct.kind = "generator"
       THEN Pull(GeneratorSplitter(GeneratorItems(w[1], w[2], value), thread,
                                   inst.ty = "LazySplitLoop"))
       ELSE [exc |-> "", result |-> direct, splitter |-> MethodSplitter]

SplitProduce(inst, thread, range, batch_index, vals) ==
    LET value == ShardValue(inst, range, vals)
        w == SplitWindow(inst, batch_index, value)
        direct == TySplit(inst.ty, w[1], w[2], value)
    IN IF inst.splitter.kind = "None"
       THEN IF direct.kind = "generator"
            THEN Pull(GeneratorSplitter(GeneratorItems(w[1], w[2], value), thread,
                                        inst.ty = "LazySplitLoop"))
            ELSE [exc |-> "", result |-> direct, splitter |-> MethodSplitter]
       ELSE IF inst.splitter.kind = "generator"
            THEN Pull(inst.splitter)
            ELSE [exc |-> "", result |-> direct, splitter |-> inst.splitter]

\* isinstance(result, str) and result == STOP_ITERATION
IsStop(result) == result.kind = "str" /\ result.str = STOP_ITERATION

\* Append_ appending the value twice
Append_Twice(ctx, slot, value) == [ctx EXCEPT ![slot] = Append(Append(@, value), value)]

\* context[slot].append(value)
Append_(ctx, slot, value) == [ctx EXCEPT ![slot] = Append(@, value)]

Outcome(op, i, thread, ret, exc, owner) ==
    [op |-> op, inst |-> i, thread |-> thread, batch |-> batch[thread],
     ret |-> ret, exc |-> exc, owner |-> owner]

\* Split.evaluate storing the shard-narrowed value back into values
SplitEvaluate_Narrows(thread, i) ==
    LET inst == insts[i]
        p == SplitProduce(inst, thread, index_range[thread], batch[thread], values)
        owner == IF p.splitter.kind = "generator" THEN p.splitter.owner ELSE 0
    IN /\ inst.op = "Split"
       /\ insts' = [insts EXCEPT ![i].splitter = p.splitter]
       /\ values' = [values EXCEPT ![inst.target] =
                        ShardValue(inst, index_range[thread], values)]
       /\ IF p.exc # ""
          THEN /\ last' = Outcome("Split", i, thread, "raise", p.exc, owner)
               /\ UNCHANGED <<context, stopped>>
          ELSE IF IsStop(p.result)
          THEN /\ last' = Outcome("Split", i, thread, STOP_ITERATION, "", owner)
               /\ stopped' = [stopped EXCEPT ![thread] = @ \cup {i}]
               /\ UNCHANGED context
          ELSE /\ context' = [context EXCEPT ![thread] = Append_(@, inst.target, p.result)]
               /\ last' = Outcome("Split", i, thread, "None", "", owner)
               /\ UNCHANGED stopped
       /\ UNCHANGED <<index_range, ncalls, ntransfers, removed>>

SplitEvaluate(thread, i) ==
    LET inst == insts[i]
        p == SplitProduce(inst, thread, index_range[thread], batch[thread], values)
        owner == IF p.splitter.kind = "generator" THEN p.splitter.owner ELSE 0
    IN /\ inst.op = "Split"
       /\ insts' = [insts EXCEPT ![i].splitter = p.splitter]
       /\ IF p.exc # ""
          THEN /\ last' = Outcome("Split", i, thread, "raise", p.exc, owner)
               /\ UNCHANGED <<context, stopped>>
          ELSE IF IsStop(p.result)
          THEN /\ last' = Outcome("Split", i, thread, STOP_ITERATION, "", owner)
               /\ stopped' = [stopped EXCEPT ![thread] = @ \cup {i}]
               /\ UNCHANGED context
          ELSE /\ context' = [context EXCEPT ![thread] = Append_(@, inst.target, p.result)]
               /\ last' = Outcome("Split", i, thread, "None", "", owner)
               /\ UNCHANGED stopped
       /\ UNCHANGED <<values, index_range, ncalls, ntransfers, removed>>

-----------------------------------------------------------------------------
(* Merge.evaluate *)

\* Merge.evaluate as a silent no-op
MergeEvaluate_NoOp(thread, i) ==
    /\ insts[i].op = "Merge"
    /\ last' = Outcome("Merge", i, thread, "None", "", 0)
    /\ UNCHANGED <<values, index_range, insts, context, ncalls, ntransfers, stopped, removed>>

MergeEvaluate(thread, i) ==
    /\ insts[i].op = "Merge"
    /\ last' = Outcome("Merge", i, thread, "raise", "Exception", 0)
    /\ UNCHANGED <<values, index_range, insts, context, ncalls, ntransfers, stopped, removed>>

-----------------------------------------------------------------------------
(* The functions a Call invokes. A function returns a value or raises.     *)

Returned(v) == [exc |-> "", value |-> v]
Raised(e) == [exc |-> e, value |-> NoneV]

\* pd.concat(objs): the rows of the pandas objects in order, None entries
\* dropped
RECURSIVE pd_concat(_)
pd_concat(objs) ==
    IF Len(objs) = 0 THEN <<>>
    ELSE (IF objs[1] = NoneV THEN <<>> ELSE objs[1].data) \o pd_concat(Tail(objs))

\* DataFrameSplit.combine(values), original left at its default None: None for
\* an empty list or a list of None only, else the concatenation
DataFrameSplit_combine(vals) ==
    LET do_combine == \E k \in 1 .. Len(vals) : vals[k] # NoneV
    IN IF do_combine /\ Len(vals) > 0
       THEN IF \A k \in 1 .. Len(vals) : vals[k] = NoneV \/ IsPandas(vals[k])
            THEN Returned(Series(pd_concat(vals)))
            ELSE Raised("TypeError")
       ELSE Returned(NoneV)

IsContainer(v) == v.kind \in {"Series", "cudf"}
\* container * c, elementwise (an int is held as one element)
Scale(v, c) == [v EXCEPT !.data = [k \in 1 .. Len(v.data) |-> v.data[k] * c]]

\* double(x): x * 2, elementwise on a container
Double(x) ==
    IF IsContainer(x) \/ x.kind = "int" THEN Returned(Scale(x, 2))
    ELSE IF x.kind = "str" THEN Returned(StrV(x.str \o x.str))
    ELSE Raised("TypeError")

\* multiply(series, value): series * value
Multiply(series, value) ==
    IF (IsContainer(series) \/ series.kind = "int") /\ value.kind = "int"
    THEN Returned(Scale(series, value.data[1]))
    ELSE Raised("TypeError")

\* func(*args, **kwargs), kw the values of the keyword arguments in the order
\* of kwargs
Apply(func, args, kwargs, kw) ==
    LET positional(n) == Len(args) >= n
        named(name) == \E k \in 1 .. Len(kwargs) : kwargs[k][1] = name
        kwvalue(name) == kw[CHOOSE k \in 1 .. Len(kwargs) : kwargs[k][1] = name]
    IN CASE func = "double" ->
              IF Len(args) = 1 /\ Len(kwargs) = 0 THEN Double(args[1])
              ELSE Raised("TypeError")
         [] func = "multiply" ->
              IF Len(args) = 2 /\ Len(kwargs) = 0 THEN Multiply(args[1], args[2])
              ELSE IF Len(args) = 1 /\ Len(kwargs) = 1 /\ named("value")
              THEN Multiply(args[1], kwvalue("value"))
              ELSE Raised("TypeError")
         [] OTHER -> Raised("UserError")

-----------------------------------------------------------------------------
(* Call *)

\* context[target][-1] is an IndexError on an empty stack
Readable(ctx, slots) == \A k \in 1 .. Len(slots) : Len(ctx[slots[k]]) > 0
Top(stack) == stack[Len(stack)]

\* ReadSlots with a default, None, for a slot that has no entry
ReadSlots_Default(ctx, slots) ==
    [exc |-> "",
     values |-> [k \in 1 .. Len(slots) |->
                   IF Len(ctx[slots[k]]) = 0 THEN NoneV ELSE Top(ctx[slots[k]])]]

\* [context[slot][-1] for slot in slots]: the tops, or the IndexError of the
\* first empty stack
ReadSlots(ctx, slots) ==
    IF Readable(ctx, slots)
    THEN [exc |-> "", values |-> [k \in 1 .. Len(slots) |-> Top(ctx[slots[k]])]]
    ELSE [exc |-> "IndexError", values |-> <<>>]

KwSlots(inst) == [k \in 1 .. Len(inst.kwargs) |-> inst.kwargs[k][2]]

\* get_args reading the oldest entry of each stack
get_args_Bottom(inst, ctx) ==
    IF Readable(ctx, inst.args)
    THEN [exc |-> "", values |-> [k \in 1 .. Len(inst.args) |-> ctx[inst.args[k]][1]]]
    ELSE [exc |-> "IndexError", values |-> <<>>]

get_args(inst, ctx) == ReadSlots(ctx, inst.args)

\* the values of the keyword arguments, in the order of inst.kwargs
get_kwargs(inst, ctx) == ReadSlots(ctx, KwSlots(inst))

\* CallStore without the test of the target: the result lands on a stack
CallStore_Untested(ctx, target, result) ==
    Append_(ctx, IF target # None THEN target ELSE 0, result)

\* if self.target is not None: context[self.target].append(result)
CallStore(ctx, target, result) ==
    IF target # None THEN Append_(ctx, target, result) ELSE ctx

\* Call.evaluate invoking the function a second time when it raises
CallEvaluate_Retry(thread, i) ==
    LET inst == insts[i]
        ctx == context[thread]
    IN /\ inst.op = "Call"
       /\ IF get_args(inst, ctx).exc # ""
          THEN /\ last' = Outcome("Call", i, thread, "raise", get_args(inst, ctx).exc, 0)
               /\ UNCHANGED <<context, ncalls>>
          ELSE IF get_kwargs(inst, ctx).exc # ""
          THEN /\ last' = Outcome("Call", i, thread, "raise", get_kwargs(inst, ctx).exc, 0)
               /\ UNCHANGED <<context, ncalls>>
          ELSE LET r == Apply(inst.func, get_args(inst, ctx).values, inst.kwargs,
                              get_kwargs(inst, ctx).values)
               IN IF r.exc # ""
                  THEN /\ ncalls' = ncalls + 2
                       /\ context' = context
                       /\ last' = Outcome("Call", i, thread, "raise", r.exc, 0)
                  ELSE /\ ncalls' = ncalls + 1
                       /\ context' = [context EXCEPT
                                        ![thread] = CallStore(@, inst.target, r.value)]
                       /\ last' = Outcome("Call", i, thread, "None", "", 0)
       /\ UNCHANGED <<values, index_range, insts, ntransfers, stopped, removed>>

CallEvaluate(thread, i) ==
    LET inst == insts[i]
        ctx == context[thread]
    IN /\ inst.op = "Call"
       /\ IF get_args(inst, ctx).exc # ""
          THEN /\ last' = Outcome("Call", i, thread, "raise", get_args(inst, ctx).exc, 0)
               /\ UNCHANGED <<context, ncalls>>
          ELSE IF get_kwargs(inst, ctx).exc # ""
          THEN /\ last' = Outcome("Call", i, thread, "raise", get_kwargs(inst, ctx).exc, 0)
               /\ UNCHANGED <<context, ncalls>>
          ELSE LET r == Apply(inst.func, get_args(inst, ctx).values, inst.kwargs,
                              get_kwargs(inst, ctx).values)
               IN /\ ncalls' = ncalls + 1
                  /\ IF r.exc # ""
                     THEN /\ context' = context
                          /\ last' = Outcome("Call", i, thread, "raise", r.exc, 0)
                     ELSE /\ context' = [context EXCEPT
                                           ![thread] = CallStore(@, inst.target, r.value)]
                          /\ last' = Outcome("Call", i, thread, "None", "", 0)
       /\ UNCHANGED <<values, index_range, insts, ntransfers, stopped, removed>>

\* remove_target that leaves the target in place
remove_target_Keeps(inst) == inst

\* self.target = None
remove_target(inst) == [inst EXCEPT !.target = None]

RemoveTarget(i) ==
    /\ insts[i].op = "Call"
    /\ insts' = [insts EXCEPT ![i] = remove_target(@)]
    /\ removed' = removed \cup {i}
    /\ UNCHANGED <<values, index_range, context, pc, batch, halted, ncalls, ntransfers,
                   stopped, last>>

-----------------------------------------------------------------------------
(* To.evaluate *)

\* ReplaceTop that appends the converted value
ReplaceTop_Appends(stack, new_value) == Append(stack, new_value)

\* context[self.target][-1] = new_value
ReplaceTop(stack, new_value) == [stack EXCEPT ![Len(stack)] = new_value]

\* To.evaluate on one context that all threads share
ToEvaluate_Shared(thread, i) ==
    LET inst == insts[i]
        ctx == context[MainThread]
    IN /\ inst.op = "To"
       /\ IF ReadSlots(ctx, <<inst.target>>).exc # ""
          THEN /\ last' = Outcome("To", i, thread, "raise",
                                  ReadSlots(ctx, <<inst.target>>).exc, 0)
               /\ UNCHANGED <<context, ntransfers>>
          ELSE LET old_value == ReadSlots(ctx, <<inst.target>>).values[1]
                   new_value == TyTo(inst.ty, old_value, inst.backend)
               IN /\ ntransfers' = ntransfers + 1
                  /\ context' = [context EXCEPT ![MainThread][inst.target] =
                                        ReplaceTop(@, new_value)]
                  /\ last' = Outcome("To", i, thread, "None", "", 0)
       /\ UNCHANGED <<values, index_range, insts, ncalls, stopped, removed>>

ToEvaluate(thread, i) ==
    LET inst == insts[i]
        ctx == context[thread]
    IN /\ inst.op = "To"
       /\ IF ReadSlots(ctx, <<inst.target>>).exc # ""
          THEN /\ last' = Outcome("To", i, thread, "raise",
                                  ReadSlots(ctx, <<inst.target>>).exc, 0)
               /\ UNCHANGED <<context, ntransfers>>
          ELSE LET old_value == ReadSlots(ctx, <<inst.target>>).values[1]
                   new_value == TyTo(inst.ty, old_value, inst.backend)
               IN /\ ntransfers' = ntransfers + 1
                  /\ context' = [context EXCEPT ![thread][inst.target] =
                                        ReplaceTop(@, new_value)]
                  /\ last' = Outcome("To", i, thread, "None", "", 0)
       /\ UNCHANGED <<values, index_range, insts, ncalls, stopped, removed>>

-----------------------------------------------------------------------------
(* Programs, inputs and shards. *)

Iota(n) == [k \in 1 .. n |-> k]
BatchSizes == 1 .. MaxBatchSize
Constants == {IntV(3), StrV(STOP_ITERATION), StrV("abc")}

\* the slots' source values: v0 for slot 0, v1 for slot 1
Vals(v0, v1) == [slot \in Slots |-> IF slot = 0 THEN v0 ELSE IF slot = 1 THEN v1 ELSE NoneV]

\* disjoint shards of an input of n elements, one per thread
Ranges(n) ==
    {[t \in Threads |-> IF t = MainThread THEN <<0, k>> ELSE <<k, n>>] : k \in 0 .. n}

\* [Split(target=0), Call(target=1, func=double, args=[0])]
ProgEager(s) ==
    <<SplitI(0, "DataFrameSplit", "cpu", s),
      CallI(1, "double", <<0>>, <<>>, "DataFrameSplit", "cpu", s)>>

\* a call offloaded to the accelerator, its second argument a broadcast constant
ProgOffload(s) ==
    <<SplitI(0, "DataFrameSplit", "cpu", s),
      SplitI(1, "Broadcast", "cpu", s),
      ToI(0, "DataFrameSplit", "gpu"),
      CallI(2, "multiply", <<0>>, <<(<<"value", 1>>)>>, "DataFrameSplit", "gpu", s),
      ToI(2, "DataFrameSplit", "cpu")>>

\* a lazily split input and a call made for its side effect
ProgLazy(ty, s) ==
    <<SplitI(0, ty, "cpu", s),
      CallI(None, "double", <<0>>, <<>>, "DataFrameSplit", "cpu", s)>>

\* a Program with a Merge left in it, and a function that raises
ProgMerge(s) ==
    <<SplitI(0, "DataFrameSplit", "cpu", s),
      MergeI(0, "DataFrameSplit", "cpu", s),
      CallI(1, "fail", <<0>>, <<>>, "DataFrameSplit", "cpu", s)>>

Scenario(prog, vals, ranges) == [prog |-> prog, values |-> vals, ranges |-> ranges]

EagerScenarios ==
    UNION {{Scenario(ProgEager(s), Vals(Series(Iota(n)), NoneV), r) : r \in Ranges(n)} :
           s \in BatchSizes, n \in 0 .. MaxLen}

ConstantScenarios ==
    {Scenario(ProgEager(s), Vals(v, NoneV), r) :
        s \in BatchSizes, v \in Constants \cup {Operation(Series(Iota(MaxLen)))},
        r \in Ranges(MaxLen)}

OffloadScenarios ==
    {Scenario(ProgOffload(s), Vals(Series(Iota(MaxLen)), v), r) :
        s \in BatchSizes, v \in Constants, r \in Ranges(MaxLen)}

LazyScenarios ==
    UNION {{Scenario(ProgLazy(ty, s), Vals(Series(Iota(n)), NoneV), r) : r \in Ranges(n)} :
           ty \in LazyTypes, s \in BatchSizes, n \in 0 .. MaxLen}

MergeScenarios ==
    {Scenario(ProgMerge(s), Vals(Series(Iota(MaxLen)), NoneV), r) :
        s \in BatchSizes, r \in Ranges(MaxLen)}

Scenarios ==
    EagerScenarios \cup ConstantScenarios \cup OffloadScenarios \cup LazyScenarios
        \cup MergeScenarios

NoOutcome == [op |-> "", inst |-> 0, thread |-> 0, batch |-> 0, ret |-> "", exc |-> "",
              owner |-> 0]

\* a Program built, no thread started: every context empty
InitWith(sc) ==
    /\ values = sc.values
    /\ index_range = sc.ranges
    /\ insts = sc.prog
    /\ context = [t \in Threads |-> [slot \in Slots |-> <<>>]]
    /\ pc = [t \in Threads |-> 1]
    /\ batch = [t \in Threads |-> 0]
    /\ halted = [t \in Threads |-> FALSE]
    /\ ncalls = 0
    /\ ntransfers = 0
    /\ stopped = [t \in Threads |-> {}]
    /\ removed = {}
    /\ last = NoOutcome

Init == \E sc \in Scenarios : InitWith(sc)

-----------------------------------------------------------------------------
(* The batch loop: the instructions of the Program in order, once per      *)
(* ascending batch index.                                                  *)

Ready(thread) == ~halted[thread] /\ batch[thread] <= MaxBatch

Advance(thread) ==
    /\ pc' = [pc EXCEPT ![thread] = IF @ < Len(insts) THEN @ + 1 ELSE 1]
    /\ batch' = [batch EXCEPT ![thread] = IF pc[thread] < Len(insts) THEN @ ELSE @ + 1]

\* a caller that goes on whatever the evaluation returned or raised
SplitStep(thread) ==
    Ready(thread) /\ SplitEvaluate(thread, pc[thread]) /\ Advance(thread) /\ UNCHANGED halted

MergeStep(thread) ==
    Ready(thread) /\ MergeEvaluate(thread, pc[thread]) /\ Advance(thread) /\ UNCHANGED halted

CallStep(thread) ==
    Ready(thread) /\ CallEvaluate(thread, pc[thread]) /\ Advance(thread) /\ UNCHANGED halted

ToStep(thread) ==
    Ready(thread) /\ ToEvaluate(thread, pc[thread]) /\ Advance(thread) /\ UNCHANGED halted

\* the driver: its loop ends at the exhaustion marker and at an exception
DriverStep(thread) ==
    /\ Ready(thread)
    /\ \/ SplitEvaluate(thread, pc[thread])
       \/ MergeEvaluate(thread, pc[thread])
       \/ CallEvaluate(thread, pc[thread])
       \/ ToEvaluate(thread, pc[thread])
    /\ IF last'.ret = "None"
       THEN Advance(thread) /\ UNCHANGED halted
       ELSE halted' = [halted EXCEPT ![thread] = TRUE] /\ UNCHANGED <<pc, batch>>

\* one worker, and the planner pruning outputs
Next ==
    \/ SplitStep(MainThread)
    \/ MergeStep(MainThread)
    \/ CallStep(MainThread)
    \/ ToStep(MainThread)
    \/ \E i \in 1 .. Len(insts) : RemoveTarget(i)

Spec == Init /\ [][Next]_vars

\* the workers of one Program, each on its shard with its context
NextThreads ==
    \E t \in Threads : SplitStep(t) \/ MergeStep(t) \/ CallStep(t) \/ ToStep(t)

SpecThreads == Init /\ [][NextThreads]_vars

\* one worker run by the driver
NextDriver == DriverStep(MainThread)

SpecDriver == Init /\ [][NextDriver]_vars

-----------------------------------------------------------------------------
(* Properties. *)

InstIds == 1 .. Len(insts)

\* the step evaluates the instruction at pc[thread]
Evaluated(thread) ==
    pc'[thread] # pc[thread] \/ batch'[thread] # batch[thread]
        \/ halted'[thread] # halted[thread]

\* the last evaluation was of Split instruction i
LastSplit(i) == last.op = "Split" /\ last.inst = i

\* the input of Split instruction i narrowed to the shard of thread
ShardOf(thread, i) == ShardValue(insts[i], index_range[thread], values)

\* ceil(n / s)
NumBatches(n, s) == (n + s - 1) \div s

\* the number of batches of the shard of thread under Split instruction i
BatchesOf(thread, i) == NumBatches(Len(ShardOf(thread, i).data), insts[i].batch_size)

IsPrefix(a, b) == Len(a) <= Len(b) /\ a = SubSeq(b, 1, Len(a))

\* C1: for an eager index-range split type over a shard of n elements with
\* batch size s, the evaluation of Split at batch index ceil(n/s) returns the
\* exhaustion marker and pushes nothing, so that the target holds exactly the
\* ceil(n/s) batches pushed before it.
C1_EagerSplitExhausts ==
    \A i \in InstIds :
        (/\ LastSplit(i)
         /\ insts[i].ty = "DataFrameSplit"
         /\ IsPandas(ShardOf(last.thread, i))
         /\ Len(ShardOf(last.thread, i).data) > 0
         /\ last.batch = BatchesOf(last.thread, i))
        => /\ last.ret = STOP_ITERATION
           /\ Len(context[last.thread][insts[i].target]) = BatchesOf(last.thread, i)

\* C2: once a Split instruction has returned the exhaustion marker to a
\* thread, every later evaluation of it by that thread returns the marker too
\* (here already for a shard that is not empty).
C2_ExhaustionIsMonotone ==
    [][\A t \in Threads : \A i \in stopped[t] :
          (Evaluated(t) /\ pc[t] = i /\ Len(ShardOf(t, i).data) > 0)
          => last'.ret = STOP_ITERATION]_vars

\* C3: with two threads on disjoint shards, neither empty, a thread pulls only
\* from a lazy sequence its own evaluation created, and the target of a lazy
\* Split holds, in each thread's context, the leading batches of that thread's
\* shard in order.
C3_MemoOwnedByOneThread ==
    (\A t \in Threads : index_range[t][1] < index_range[t][2])
    => /\ (last.op = "Split" /\ last.owner # 0) => last.owner = last.thread
       /\ \A t \in Threads : \A i \in InstIds :
             (insts[i].op = "Split" /\ insts[i].ty \in LazyTypes)
             => IsPrefix(context[t][insts[i].target],
                         Chunks(ShardOf(t, i).data, insts[i].batch_size))

\* C4: Split.evaluate never reports exhaustion for real data: the value an
\* eager split produces from the input, a string included, is pushed onto the
\* target's stack.
C4_DataIsNeverExhaustion ==
    \A i \in InstIds :
        (LastSplit(i) /\ insts[i].ty \notin LazyTypes)
        => /\ last.ret = "None"
           /\ Len(context[last.thread][insts[i].target]) > 0

\* the concatenation of a sequence of containers
RECURSIVE Concat(_)
Concat(parts) ==
    IF Len(parts) = 0 THEN <<>> ELSE parts[1].data \o Concat(Tail(parts))

\* C5: in the Program [Split(0), Call(1, double, [0])] run by the driver over an
\* eagerly split Series, the values pushed on the Call's target in batches
\* 0 .. ceil(n/s)-1, concatenated in batch order, are double applied to the
\* whole of the thread's input.
C5_BatchesCombineToWhole ==
    \A t \in Threads : \A i, j \in InstIds :
        (/\ insts[i].op = "Split" /\ insts[i].ty = "DataFrameSplit"
         /\ IsPandas(ShardOf(t, i))
         /\ insts[j].op = "Call" /\ insts[j].func = "double"
         /\ insts[j].args = <<insts[i].target>> /\ insts[j].target # None
         /\ Len(context[t][insts[j].target]) >= BatchesOf(t, i))
        => Concat(SubSeq(context[t][insts[j].target], 1, BatchesOf(t, i)))
             = Double(ShardOf(t, i)).value.data

\* the input of the end-to-end example, [1, 2, 3] in batches of 2, has been
\* split and doubled
C5_Witness ==
    /\ Len(insts) = 2 /\ insts[1].ty = "DataFrameSplit" /\ insts[1].batch_size = 2
    /\ insts[2].func = "double" /\ insts[2].target = 1
    /\ IsPandas(ShardOf(MainThread, 1)) /\ ShardOf(MainThread, 1).data = <<1, 2, 3>>
    /\ context[MainThread][1] = <<Series(<<2, 4>>), Series(<<6>>)>>

\* the split type of Split instruction i splits its input as a constant: by
\* the identity, with no element count
IsBroadcast(i) ==
    \/ insts[i].ty = "Broadcast"
    \/ insts[i].ty = "DataFrameSplit" /\ ~IsPandas(Unwrap(values[insts[i].target]))

\* C6: a Split of a broadcast target pushes, at every batch index and for every
\* index range, the whole unmodified value, and never returns the exhaustion
\* marker.
C6_BroadcastNeverExhausts ==
    \A i \in InstIds :
        (LastSplit(i) /\ IsBroadcast(i))
        => /\ last.ret # STOP_ITERATION
           /\ Len(context[last.thread][insts[i].target]) > 0
           /\ Top(context[last.thread][insts[i].target]) = Unwrap(values[insts[i].target])

\* C7: the evaluation of a Call without a target leaves every stack of every
\* context as it was and, its arguments read, invokes the function once.
C7_TargetlessCallRunsForEffect ==
    [][\A t \in Threads :
          (Evaluated(t) /\ insts[pc[t]].op = "Call" /\ insts[pc[t]].target = None)
          => /\ context' = context
             /\ (Readable(context[t], insts[pc[t]].args)
                    /\ Readable(context[t], KwSlots(insts[pc[t]])))
                => ncalls' = ncalls + 1]_vars

\* a Call built without a target has invoked its function and returned
C7_Witness ==
    /\ last.op = "Call" /\ last.ret = "None"
    /\ insts[last.inst].target = None /\ last.inst \notin removed
    /\ ncalls >= 2
    /\ Len(context[last.thread][0]) >= 2

\* C8: after remove_target the Call's target is None for good, and an
\* evaluation of the Call pushes nothing: every stack stays as it was.
C8_RemoveTargetIsOneWay ==
    [][/\ removed \subseteq removed'
       /\ \A i \in removed' : insts'[i].target = None
       /\ \A t \in Threads :
             (Evaluated(t) /\ pc[t] \in removed) => context' = context]_vars

\* the Call of [Split(0), Call(1, double, [0])] was evaluated after its target
\* was removed: the function returned and slot 1 is still empty
C8_Witness ==
    /\ Len(insts) = 2 /\ insts[1].ty = "DataFrameSplit" /\ insts[2].func = "double"
    /\ 2 \in removed
    /\ last.op = "Call" /\ last.inst = 2 /\ last.ret = "None"
    /\ context[last.thread][1] = <<>>

\* C9: To.evaluate on a target with an entry keeps the stack's length and the
\* entries below the top, makes the top ty.to(old top, backend), and leaves the
\* other slots and the other contexts as they were.
C9_ToReplacesTheTop ==
    [][\A t \in Threads :
          LET inst == insts[pc[t]]
              old == context[t][inst.target]
              new == context'[t][inst.target]
          IN (Evaluated(t) /\ inst.op = "To" /\ Len(old) > 0)
             => /\ Len(new) = Len(old)
                /\ SubSeq(new, 1, Len(old) - 1) = SubSeq(old, 1, Len(old) - 1)
                /\ Top(new) = TyTo(inst.ty, Top(old), inst.backend)
                /\ \A slot \in Slots \ {inst.target} : context'[t][slot] = context[t][slot]
                /\ \A u \in Threads \ {t} : context'[u] = context[u]]_vars

\* a To has moved the second batch of its target, the top of a stack of two, to
\* the accelerator
C9_Witness ==
    /\ last.op = "To" /\ last.ret = "None" /\ insts[last.inst].backend = "gpu"
    /\ LET stack == context[last.thread][insts[last.inst].target]
       IN /\ Len(stack) = 2
          /\ Top(stack).kind = "cudf" /\ Len(Top(stack).data) > 0
          /\ stack[1] # Top(stack)

\* C10: Merge.evaluate raises whatever the thread, shard, batch, values and
\* context, and leaves the contexts as they were.
C10_MergeAlwaysFails ==
    [][\A t \in Threads :
          (Evaluated(t) /\ insts[pc[t]].op = "Merge")
          => /\ last'.op = "Merge" /\ last'.thread = t
             /\ last'.ret = "raise" /\ last'.exc = "Exception"
             /\ context' = context]_vars

\* both threads have evaluated the Merge, the second in a later batch and with
\* values in its context
C10_Witness ==
    /\ last.op = "Merge" /\ last.exc = "Exception" /\ last.batch >= 1
    /\ last.thread # MainThread
    /\ Len(context[last.thread][0]) >= 2
    /\ batch[MainThread] >= 1

\* C11: reading an empty slot is an explicit error. A Call one of whose
\* argument or keyword slots has an empty stack, and a To whose target's stack
\* is empty, fail with an IndexError: the function and the transfer are not
\* invoked, nothing is pushed or replaced, no default value is read.
C11_EmptySlotReadRaises ==
    [][\A t \in Threads :
          LET inst == insts[pc[t]]
              empty == \/ /\ inst.op = "Call"
                          /\ \/ \E k \in 1 .. Len(inst.args) :
                                   context[t][inst.args[k]] = <<>>
                             \/ \E k \in 1 .. Len(inst.kwargs) :
                                   context[t][inst.kwargs[k][2]] = <<>>
                       \/ inst.op = "To" /\ context[t][inst.target] = <<>>
          IN (Evaluated(t) /\ empty)
             => /\ last'.ret = "raise" /\ last'.exc = "IndexError"
                /\ ncalls' = ncalls
                /\ ntransfers' = ntransfers
                /\ context' = context]_vars

\* both cases have happened in one run: a Call has failed reading the keyword slot
\* of a Split that had reported exhaustion, and then a To has failed on the
\* still empty target of that Call
C11_Witness ==
    /\ last.op = "To" /\ last.ret = "raise" /\ last.exc = "IndexError"
    /\ context[last.thread][insts[last.inst].target] = <<>>
    /\ \E i \in InstIds :
          /\ insts[i].op = "Call" /\ i < last.inst
          /\ \E k \in 1 .. Len(insts[i].kwargs) :
                context[last.thread][insts[i].kwargs[k][2]] = <<>>

\* the values the program holds: the inputs, unwrapped, and every entry of
\* every stack
HeldValues ==
    {Unwrap(values[slot]) : slot \in DOMAIN values}
        \cup UNION {{context[t][slot][k] : k \in 1 .. Len(context[t][slot])} :
                       t \in Threads, slot \in Slots}

\* C12: full-range round trip of the eager split type DataFrameSplit: for
\* every value v that has an element count, combining the one piece
\* split(0, elements(v), v) gives v back.
C12_FullRangeRoundTrip ==
    \A v \in HeldValues :
        DataFrameSplit_elements(v) # None
        => DataFrameSplit_combine(<<DataFrameSplit_split(0, DataFrameSplit_elements(v), v)>>)
             = Returned(v)

\* the round trip has been put to a batch a Call computed, a Series of two
\* elements that is no input
C12_Witness ==
    /\ last.op = "Call" /\ last.ret = "None"
    /\ \E v \in HeldValues :
          /\ DataFrameSplit_elements(v) = 2
          /\ \A slot \in DOMAIN values : Unwrap(values[slot]) # v

\* thread's shard of the input of Split instruction i as positions of the
\* input: <<first position - 1, element count n>>
ShardSpan(thread, i) ==
    LET N == Len(Unwrap(values[insts[i].target]).data)
        lo == Min(index_range[thread][1], N)
        hi == Min(index_range[thread][2], N)
    IN <<lo, IF hi > lo THEN hi - lo ELSE 0>>

\* the elements of the input at shard offsets [s*b, min(s*b+s, n))
WindowAt(thread, i, b) ==
    LET span == ShardSpan(thread, i)
        s == insts[i].batch_size
        first == s * b
        limit == Min(s * b + s, span[2])
    IN [j \in 1 .. (limit - first) |->
          Unwrap(values[insts[i].target]).data[span[1] + first + j]]

\* C13: a Split with the eager split type, batch size s, evaluated at batch
\* index b with s*b < n over a shard of n elements, pushes exactly the elements
\* at shard offsets [s*b, min(s*b+s, n)); the batches 0 .. ceil(n/s)-1 are
\* disjoint, in order, and cover the shard once.
C13_WindowIsHalfOpen ==
    \A t \in Threads : \A i \in InstIds :
        (/\ insts[i].op = "Split" /\ insts[i].ty = "DataFrameSplit"
         /\ IsPandas(Unwrap(values[insts[i].target])))
        => LET stack == context[t][insts[i].target]
               n == ShardSpan(t, i)[2]
               nb == NumBatches(n, insts[i].batch_size)
           IN /\ Len(stack) = batch[t] + (IF pc[t] > i THEN 1 ELSE 0)
              /\ \A k \in 1 .. Min(Len(stack), nb) : stack[k].data = WindowAt(t, i, k - 1)
              /\ Len(stack) >= nb
                 => Concat(SubSeq(stack, 1, nb))
                      = [j \in 1 .. n |->
                           Unwrap(values[insts[i].target]).data[ShardSpan(t, i)[1] + j]]

\* the second thread, whose shard starts inside the input, has received its
\* two batches of one element
C13_Witness ==
    \E t \in Threads \ {MainThread} : \E i \in InstIds :
        /\ insts[i].op = "Split" /\ insts[i].ty = "DataFrameSplit"
        /\ IsPandas(Unwrap(values[insts[i].target]))
        /\ index_range[t] = <<1, 3>> /\ insts[i].batch_size = 1
        /\ Len(context[t][insts[i].target]) = 2
        /\ context[t][insts[i].target][2].data = <<3>>
        /\ last.op = "Split" /\ last.thread = t /\ last.inst = i

\* C14: Split.evaluate changes the context in one of two ways. When it returns
\* the exhaustion marker every stack of every context is as it was; when it
\* returns normally the target's stack of the evaluating thread has exactly
\* one more entry, which is not the marker, above its earlier entries, and
\* every other stack is as it was. No evaluation of a Split, one that raises
\* included, changes the context in any other way.
C14_SplitFrame ==
    [][\A t \in Threads :
          LET inst == insts[pc[t]]
              old == context[t][inst.target]
              new == context'[t][inst.target]
              pushed == /\ Len(new) = Len(old) + 1
                        /\ SubSeq(new, 1, Len(old)) = old
                        /\ new[Len(new)] # StrV(STOP_ITERATION)
                        /\ \A slot \in Slots \ {inst.target} :
                              context'[t][slot] = context[t][slot]
                        /\ \A u \in Threads \ {t} : context'[u] = context[u]
          IN (Evaluated(t) /\ inst.op = "Split")
             => /\ last'.ret = STOP_ITERATION => context' = context
                /\ last'.ret = "None" => pushed
                /\ context' = context \/ pushed]_vars

\* a lazy Split has pushed a batch and then, at its next evaluation, returned
\* the marker and left the stack of one entry alone
C14_Witness ==
    /\ last.op = "Split" /\ last.ret = STOP_ITERATION
    /\ insts[last.inst].ty \in LazyTypes
    /\ Len(context[last.thread][insts[last.inst].target]) = 1
    /\ Len(context[last.thread][insts[last.inst].target][1].data) > 0

RECURSIVE SumOver(_, _)
SumOver(f, S) ==
    IF S = {} THEN 0
    ELSE LET x == CHOOSE y \in S : TRUE IN f[x] + SumOver(f, S \ {x})

\* how many times instruction i has been evaluated, by all threads together
EvalCount(i) ==
    SumOver([t \in Threads |-> batch[t] + (IF pc[t] > i THEN 1 ELSE 0)], Threads)

\* C15: the strategy of a Split is chosen by its first evaluation and never
\* changes. When that evaluation's split returns a lazy sequence, the sequence
\* is the memo from then on, and the k-th evaluation of the instruction
\* produces the k-th element of that one sequence, whatever the batch index:
\* split is not invoked with a window again.
C15_LazyMemoIsPulledInOrder ==
    [][\A t \in Threads :
          LET i == pc[t]
              inst == insts[i]
              memo == inst.splitter
              memo2 == insts'[i].splitter
              k == EvalCount(i) + 1
              first == TySplit(inst.ty, SplitWindow(inst, batch[t], ShardOf(t, i))[1],
                               SplitWindow(inst, batch[t], ShardOf(t, i))[2], ShardOf(t, i))
              old == context[t][inst.target]
          IN (Evaluated(t) /\ inst.op = "Split")
             => /\ memo.kind = "None"
                   => /\ memo2.kind = (IF first.kind = "generator" THEN "generator"
                                       ELSE "method")
                      /\ k = 1
                /\ memo.kind # "None"
                   => /\ memo2.kind = memo.kind
                      /\ memo2.items = memo.items
                      /\ memo2.owner = memo.owner
                /\ (memo2.kind = "generator" /\ k <= Len(memo2.items))
                   => /\ memo2.pos = k
                      /\ IF memo2.items[k] = StrV(STOP_ITERATION)
                         THEN last'.ret = STOP_ITERATION /\ context' = context
                         ELSE /\ last'.ret = "None"
                              /\ context'[t][inst.target] = Append(old, memo2.items[k])]_vars

\* a lazy Split of a shard of three elements in batches of one has pushed, at
\* its second evaluation, the second element of its sequence
C15_Witness ==
    /\ last.op = "Split" /\ last.ret = "None"
    /\ insts[last.inst].ty \in LazyTypes
    /\ insts[last.inst].splitter.kind = "generator"
    /\ insts[last.inst].splitter.pos = 2
    /\ Len(insts[last.inst].splitter.items) = 4
    /\ Top(context[last.thread][insts[last.inst].target]) = Series(<<2>>)

\* the tops of the stacks of slots in ctx
Tops(ctx, slots) == [k \in 1 .. Len(slots) |-> ctx[slots[k]][Len(ctx[slots[k]])]]

\* what the function of Call instruction inst does on the tops of its
\* argument and keyword slots in ctx
CallOf(inst, ctx) ==
    Apply(inst.func, Tops(ctx, inst.args), inst.kwargs,
          Tops(ctx, [k \in 1 .. Len(inst.kwargs) |-> inst.kwargs[k][2]]))

\* every argument and keyword slot of inst has an entry in ctx
HasArguments(inst, ctx) ==
    /\ \A k \in 1 .. Len(inst.args) : ctx[inst.args[k]] # <<>>
    /\ \A k \in 1 .. Len(inst.kwargs) : ctx[inst.kwargs[k][2]] # <<>>

\* C16: when the function a Call invokes raises, Call.evaluate raises the same
\* error, the function has been invoked once and not again, and every stack,
\* the target's included, is as it was before the evaluation.
C16_FunctionErrorPropagates ==
    [][\A t \in Threads :
          LET inst == insts[pc[t]]
          IN (/\ Evaluated(t) /\ inst.op = "Call"
              /\ HasArguments(inst, context[t])
              /\ CallOf(inst, context[t]).exc # "")
             => /\ last'.ret = "raise"
                /\ last'.exc = CallOf(inst, context[t]).exc
                /\ ncalls' = ncalls + 1
                /\ context' = context]_vars

\* a Call with a target has raised the error of its function over a batch it
\* had read, and its target's stack is empty
C16_Witness ==
    /\ last.op = "Call" /\ last.ret = "raise" /\ last.exc = "UserError"
    /\ insts[last.inst].target # None
    /\ context[last.thread][insts[last.inst].target] = <<>>
    /\ HasArguments(insts[last.inst], context[last.thread])
    /\ ncalls = 1

\* C17: Call.evaluate hands the function the top entry of each argument slot,
\* in declared order, and of each keyword slot, by name, as the stacks are at
\* the moment of the call, whatever was pushed or replaced before; with a
\* target it appends exactly one entry, the return value, to the target's
\* stack and leaves every other stack as it was.
C17_CallReadsTheTops ==
    [][\A t \in Threads :
          LET inst == insts[pc[t]]
              r == CallOf(inst, context[t])
          IN (/\ Evaluated(t) /\ inst.op = "Call"
              /\ HasArguments(inst, context[t])
              /\ r.exc = "")
             => /\ last'.ret = "None"
                /\ ncalls' = ncalls + 1
                /\ inst.target # None
                   => /\ context'[t][inst.target] = Append(context[t][inst.target], r.value)
                      /\ \A slot \in Slots \ {inst.target} :
                            context'[t][slot] = context[t][slot]
                      /\ \A u \in Threads \ {t} : context'[u] = context[u]]_vars

\* a Call has multiplied the second batch of its argument slot, the top that a
\* To had replaced with its copy on the accelerator, and not the first batch
\* below it
C17_Witness ==
    /\ last.op = "Call" /\ last.ret = "None"
    /\ LET inst == insts[last.inst]
           ctx == context[last.thread]
       IN /\ inst.func = "multiply" /\ inst.target # None
          /\ Len(inst.args) = 1 /\ Len(inst.kwargs) = 1
          /\ Len(ctx[inst.args[1]]) = 2
          /\ ctx[inst.args[1]][2].kind = "cudf"
          /\ ctx[inst.args[1]][1].data # ctx[inst.args[1]][2].data
          /\ Len(ctx[inst.target]) = 2
          /\ ctx[inst.target][2] = CallOf(inst, ctx).value

\* C18: no evaluation of an instruction changes the values map, and none
\* changes a field of an instruction descriptor other than the memo of the
\* Split evaluated; the one other change of a descriptor is remove_target
\* setting the target of a Call to None, outside any evaluation.
C18_DescriptorsAreReadOnly ==
    [][/\ values' = values
       /\ Len(insts') = Len(insts)
       /\ \A i \in InstIds :
             LET a == insts[i]
                 b == insts'[i]
             IN /\ b.op = a.op /\ b.ty = a.ty /\ b.backend = a.backend
                /\ b.batch_size = a.batch_size /\ b.func = a.func
                /\ b.args = a.args /\ b.kwargs = a.kwargs
                /\ b.target # a.target
                   => /\ a.op = "Call" /\ b.target = None
                      /\ \A t \in Threads : ~Evaluated(t)
                      /\ last' = last
                /\ b.splitter # a.splitter
                   => /\ a.op = "Split"
                      /\ \E t \in Threads : Evaluated(t) /\ pc[t] = i]_vars

\* a Split has set its memo, the target of the Call has been removed, and a
\* To has converted a batch since
C18_Witness ==
    /\ \E i \in InstIds : insts[i].op = "Split" /\ insts[i].splitter.kind = "method"
    /\ \E i \in InstIds : insts[i].op = "Call" /\ i \in removed /\ insts[i].target = None
    /\ last.op = "To" /\ last.ret = "None" /\ ntransfers > 0

\* instruction i, a Split or a Call with a target, is the only Split or Call
\* of the Program with that target
SoleProducer(i) ==
    /\ insts[i].op \in {"Split", "Call"} /\ insts[i].target # None
    /\ \A j \in InstIds \ {i} :
          insts[j].op \in {"Split", "Call"} => insts[j].target # insts[i].target

\* the entries of the stacks of slots in ctx pushed in batch j - 1
EntriesAt(ctx, slots, j) == [k \in 1 .. Len(slots) |-> ctx[slots[k]][j]]

\* C19: under the driver, while no evaluation has reported exhaustion or
\* raised, the stack of the target of every Split and of every Call that is
\* the only producer of its slot has one entry for each pass completed, and
\* one more once the instruction has run in the current pass: depth k after k
\* batches. Its j-th entry holds what batch j-1 produced: the j-th window of
\* the shard, the constant, the j-th element of the lazy sequence, or the
\* function applied to the j-th entries of its argument slots. To changes no
\* depth.
C19_StackDepthIsBatchCount ==
    \A t \in Threads : \A i \in InstIds :
        (~halted[t] /\ SoleProducer(i))
        => LET inst == insts[i]
               stack == context[t][inst.target]
               input == Unwrap(values[inst.target])
           IN /\ Len(stack) = batch[t] + (IF pc[t] > i THEN 1 ELSE 0)
              /\ \A j \in 1 .. Len(stack) :
                    IF inst.op = "Call"
                    THEN stack[j].data =
                            Apply(inst.func, EntriesAt(context[t], inst.args, j), inst.kwargs,
                                  EntriesAt(context[t],
                                            [k \in 1 .. Len(inst.kwargs) |-> inst.kwargs[k][2]],
                                            j)).value.data
                    ELSE IF inst.ty \in LazyTypes
                    THEN stack[j] = Chunks(ShardOf(t, i).data, inst.batch_size)[j]
                    ELSE IF inst.ty = "DataFrameSplit" /\ IsPandas(input)
                    THEN stack[j].data = WindowAt(t, i, j - 1)
                    ELSE stack[j] = input

\* two batches of the offloaded Program have completed: the input, the
\* constant and the products each have a stack of two, the products back on
\* the host
C19_Witness ==
    /\ ~halted[MainThread] /\ batch[MainThread] = 2 /\ pc[MainThread] = 1
    /\ Len(insts) = 5 /\ insts[1].batch_size = 1
    /\ Len(context[MainThread][0]) = 2 /\ context[MainThread][0][2] = CudfSeries(<<2>>)
    /\ context[MainThread][1] = <<IntV(3), IntV(3)>>
    /\ context[MainThread][2] = <<Series(<<3>>), Series(<<6>>)>>

\* the context a thread has after it evaluates the Call or To instruction inst
\* on its context ctx, alone
AloneEffect(inst, ctx) ==
    IF inst.op = "To"
    THEN IF ctx[inst.target] = <<>> THEN ctx
         ELSE [ctx EXCEPT ![inst.target][Len(ctx[inst.target])] =
                  TyTo(inst.ty, ctx[inst.target][Len(ctx[inst.target])], inst.backend)]
    ELSE IF HasArguments(inst, ctx) /\ CallOf(inst, ctx).exc = "" /\ inst.target # None
         THEN [ctx EXCEPT ![inst.target] = Append(@, CallOf(inst, ctx).value)]
         ELSE ctx

\* C20: when two threads interleave evaluations of the Call and To
\* instructions of one Program, an evaluation by one thread changes no stack
\* of the other thread's context, and what it does to its own context depends
\* on that context and the instruction only: it is what the thread would get
\* evaluating alone.
C20_ContextsAreThreadConfined ==
    [][\A t \in Threads :
          (Evaluated(t) /\ insts[pc[t]].op \in {"Call", "To"})
          => /\ \A u \in Threads \ {t} : context'[u] = context[u]
             /\ context'[t] = AloneEffect(insts[pc[t]], context[t])]_vars

\* the second thread has converted the top of its own stack while the first
\* thread's stack of the same slot, already converted, holds another batch
C20_Witness ==
    /\ last.op = "To" /\ last.ret = "None" /\ last.thread # MainThread
    /\ LET slot == insts[last.inst].target
       IN /\ context[MainThread][slot] # <<>>
          /\ context[last.thread][slot] # <<>>
          /\ Top(context[last.thread][slot]).kind = "cudf"
          /\ Top(context[MainThread][slot]).kind = "cudf"
          /\ Top(context[last.thread][slot]) # Top(context[MainThread][slot])

====
